---- MODULE Spec2Model ----
(***************************************************************************)
(* Speaker discovery, snapshot cache and coordinator resolution of         *)
(* SoCoService (api-python/src/sndctl/services/soco_service.py).           *)
(*                                                                         *)
(* One SoCoService instance is shared by the request handlers of one       *)
(* asyncio event loop.  A handler runs without interruption between two    *)
(* await points, so every action below is the code between two awaits.     *)
(***************************************************************************)
EXTENDS Integers, Sequences, FiniteSets, TLC

(***************************************************************************)
(* Bounds of the model.                                                    *)
(***************************************************************************)
NumCallers == 2
MaxNow == 301

Callers == 1..NumCallers

(***************************************************************************)
(* The devices of the household.  d1 and d2 are ordinary players, d3 is a  *)
(* bonded satellite (not visible), d4 is a player that reports no name.    *)
(***************************************************************************)
Devices == {"d1", "d2", "d3", "d4"}

player_name == [d \in Devices |->
                  CASE d = "d1" -> "Kitchen"
                    [] d = "d2" -> "Lounge"
                    [] d = "d3" -> "Sub"
                    [] OTHER    -> ""]

is_visible == [d \in Devices |-> d # "d3"]

\* Amounts by which the wall clock advances between two steps (seconds).
ClockSteps == {299, 300, 301}

\* self._last_discovery = None
NoTime == -1

\* The discovery lock is not held.
Free == 0

\* age < 300 in discover_speakers
FreshSeconds == 300

\* No request was completed by the last step.
NoOutcome == [kind |-> "none"]

\* The call did not have to wait for the lock.
NotBehind == [state |-> "none"]

(***************************************************************************)
(* Helpers.                                                                *)
(***************************************************************************)
Range(s) == {s[i] : i \in DOMAIN s}

\* Every order in which the elements of S can be inserted into a dict.
Orderings(S) ==
  {s \in [1..Cardinality(S) -> S] : \A i, j \in DOMAIN s : i # j => s[i] # s[j]}

\* list(self._speakers_cache.keys()): the names in insertion order.
Keys(cache) == [i \in DOMAIN cache |-> player_name[cache[i]]]

\* No router request is suspended.
NoRequest == [kind |-> "none"]

VARIABLES
  speakers_cache,   \* _speakers_cache: the devices of the snapshot, in dict order
  last_discovery,   \* _last_discovery: capture time of the snapshot, or NoTime
  discovery_lock,   \* the caller holding _discovery_lock, or Free
  waiters,          \* the callers blocked in _discovery_lock.acquire(), FIFO
  now,              \* datetime.now(timezone.utc), in seconds
  pc,               \* where each caller's discover_speakers call stands
  force,            \* the force argument of each call in progress
  age,              \* the age computed by the freshness test of each call in progress
  behind,           \* for a call that had to wait: the call it was blocked behind
  outcome,          \* what the request completed by the last step did and returned
  request           \* the router request suspended at an await, or NoRequest;
                    \* the steps of discover_speakers say nothing about it

vars == <<speakers_cache, last_discovery, discovery_lock, waiters, now,
          pc, force, age, behind, outcome, request>>

Init ==
  /\ speakers_cache = <<>>
  /\ last_discovery = NoTime
  /\ discovery_lock = Free
  /\ waiters = <<>>
  /\ now = 0
  /\ pc = [c \in Callers |-> "idle"]
  /\ force = [c \in Callers |-> FALSE]
  /\ age = [c \in Callers |-> NoTime]
  /\ behind = [c \in Callers |-> NotBehind]
  /\ outcome = NoOutcome
  /\ request = NoRequest

(***************************************************************************)
(* discover_speakers                                                       *)
(***************************************************************************)

\* What a finished discover_speakers call of caller c leaves behind: its
\* argument, the age its freshness test computed (if any), how multicast
\* discovery and the IP scan ended ("none" if not started), whether a device
\* that is not visible was among the devices (seen) the run came across,
\* whether a visible named device whose probes answered (good) is missing
\* from the returned list, whether the list returned outside the except
\* branch has a name of no device that answered in this run, the dict the
\* scan returned, whether the except branch ran, the list it returned, the snapshot it found on entry, and the
\* call it had been blocked behind.
Discovered(c, f, a, m, s, seen, good, scanned, exc, r) ==
  [kind |-> "discover", caller |-> c, force |-> f, age |-> a,
   multicast |-> m, ipscan |-> s, hidden |-> \E d \in seen : ~is_visible[d],
   lost |-> \E d \in good : /\ is_visible[d] /\ player_name[d] # ""
                            /\ player_name[d] \notin Range(r),
   stale |-> /\ ~exc
             /\ \E i \in DOMAIN r : r[i] \notin {player_name[d] : d \in good},
   scanned |-> scanned, raised |-> exc,
   ret |-> r, prior |-> speakers_cache, prior_last |-> last_discovery,
   behind |-> behind[c]]

\* The call of caller c returns r, having (inst) replaced the snapshot or not:
\* the caller is ready for its next request.  A call blocked behind this one
\* from its start is from now on blocked behind a finished call, and what it
\* waited for is forgotten once another call has run in between.
Finish(c, r, inst) ==
  /\ pc' = [pc EXCEPT ![c] = "idle"]
  /\ force' = [force EXCEPT ![c] = FALSE]
  /\ age' = [age EXCEPT ![c] = NoTime]
  /\ behind' = [w \in Callers |->
        IF w = c THEN NotBehind
        ELSE IF behind[w].state = "running" /\ behind[w].caller = c
          THEN [state |-> "finished", ret |-> r, installed |-> inst]
        ELSE IF behind[w].state = "finished" THEN NotBehind
        ELSE behind[w]]

\* CacheIsFresh with the comparison the wrong way round.
CacheIsFresh_Reversed(f, cache, last, t) ==
  /\ ~f
  /\ cache # <<>>
  /\ last # NoTime
  /\ t - last > FreshSeconds

\* CacheIsFresh with the window closed one second late (age <= 300).
CacheIsFresh_Inclusive(f, cache, last, t) ==
  /\ ~f
  /\ cache # <<>>
  /\ last # NoTime
  /\ t - last <= FreshSeconds

\* CacheIsFresh without the test of force.
CacheIsFresh_IgnoresForce(f, cache, last, t) ==
  /\ cache # <<>>
  /\ last # NoTime
  /\ t - last < FreshSeconds

\* Lines 108-110: the freshness test made once the lock is held.
CacheIsFresh(f, cache, last, t) ==
  /\ ~f
  /\ cache # <<>>
  /\ last # NoTime
  /\ t - last < FreshSeconds

\* Lines 108-109: the age is computed only past "not force and
\* self._speakers_cache and self._last_discovery".
ComputedAge(f) ==
  IF ~f /\ speakers_cache # <<>> /\ last_discovery # NoTime
    THEN now - last_discovery ELSE NoTime

\* Enter that moves the capture time to the present when it serves the cache.
Enter_TouchesOnHit(c, f) ==
  /\ IF CacheIsFresh(f, speakers_cache, last_discovery, now)
       THEN /\ outcome' = Discovered(c, f, ComputedAge(f), "none", "none", {}, {}, <<>>, FALSE,
                                      Keys(speakers_cache))
            /\ Finish(c, Keys(speakers_cache), FALSE)
            /\ discovery_lock' = Free
            /\ last_discovery' = now
       ELSE /\ pc' = [pc EXCEPT ![c] = "multicast"]
            /\ force' = [force EXCEPT ![c] = f]
            /\ age' = [age EXCEPT ![c] = ComputedAge(f)]
            /\ discovery_lock' = c
            /\ outcome' = NoOutcome
            /\ UNCHANGED <<behind, last_discovery>>
  /\ UNCHANGED <<speakers_cache, now>>

\* Lines 106-115: with the lock acquired, serve the cache (and leave the
\* "async with" block at once) or start multicast discovery.
Enter(c, f) ==
  /\ IF CacheIsFresh(f, speakers_cache, last_discovery, now)
       THEN /\ outcome' = Discovered(c, f, ComputedAge(f), "none", "none", {}, {}, <<>>, FALSE,
                                      Keys(speakers_cache))
            /\ Finish(c, Keys(speakers_cache), FALSE)
            /\ discovery_lock' = Free
       ELSE /\ pc' = [pc EXCEPT ![c] = "multicast"]
            /\ force' = [force EXCEPT ![c] = f]
            /\ age' = [age EXCEPT ![c] = ComputedAge(f)]
            /\ discovery_lock' = c
            /\ outcome' = NoOutcome
            /\ UNCHANGED behind
  /\ UNCHANGED <<speakers_cache, last_discovery, now>>

\* Call without the lock: the body runs at once, whoever is discovering.
Call_NoLock(c, f) ==
  /\ pc[c] = "idle"
  /\ Enter(c, f)
  /\ UNCHANGED waiters

\* A handler calls discover_speakers(force): it runs on if the lock is free
\* and nobody waits for it, and otherwise blocks in acquire().
Call(c, f) ==
  /\ pc[c] = "idle"
  /\ IF discovery_lock = Free /\ waiters = <<>>
       THEN /\ Enter(c, f)
            /\ UNCHANGED waiters
       ELSE /\ waiters' = Append(waiters, c)
            /\ pc' = [pc EXCEPT ![c] = "waiting"]
            /\ force' = [force EXCEPT ![c] = f]
            /\ behind' = [behind EXCEPT ![c] =
                  IF discovery_lock = Free THEN NotBehind
                  ELSE [state |-> "running", caller |-> discovery_lock]]
            /\ outcome' = NoOutcome
            /\ UNCHANGED <<speakers_cache, last_discovery, discovery_lock,
                           now, age>>

\* release() wakes the first waiter, which then holds the lock.
Wake(c) ==
  /\ pc[c] = "waiting"
  /\ discovery_lock = Free
  /\ waiters # <<>>
  /\ Head(waiters) = c
  /\ waiters' = Tail(waiters)
  /\ Enter(c, force[c])

\* Lines 138-140: the except branch returns the names of the current snapshot.
\* DiscoveryFailed that returns the names of the devices come across so far
\* instead of the cached ones.
DiscoveryFailed_ReturnsFound(c, m, s, seen, good) ==
  /\ \E order \in Orderings({d \in seen : player_name[d] # "" /\ is_visible[d]}) :
       /\ outcome' = Discovered(c, force[c], age[c], m, s, seen, good, <<>>,
                                TRUE, Keys(order))
       /\ Finish(c, Keys(order), FALSE)
  /\ discovery_lock' = Free
  /\ UNCHANGED <<speakers_cache, last_discovery>>

\* DiscoveryFailed that returns without releasing the lock.
DiscoveryFailed_KeepsLock(c, m, s, seen, good) ==
  /\ outcome' = Discovered(c, force[c], age[c], m, s, seen, good, <<>>, TRUE,
                           Keys(speakers_cache))
  /\ Finish(c, Keys(speakers_cache), FALSE)
  /\ UNCHANGED <<speakers_cache, last_discovery, discovery_lock>>

DiscoveryFailed(c, m, s, seen, good) ==
  /\ outcome' = Discovered(c, force[c], age[c], m, s, seen, good, <<>>, TRUE,
                           Keys(speakers_cache))
  /\ Finish(c, Keys(speakers_cache), FALSE)
  /\ discovery_lock' = Free
  /\ UNCHANGED <<speakers_cache, last_discovery>>

\* Lines 119-123: the devices the multicast comprehension keeps.
MulticastFilter(found) ==
  {d \in found : player_name[d] # "" /\ is_visible[d]}

\* MulticastFound that fills the dict it has in place: the dict is emptied
\* in one step and filled in a later one.
MulticastFound_InPlace(c, found, bad) ==
  /\ pc[c] = "multicast"
  /\ found # {}
  /\ IF found \cap bad # {}
       THEN DiscoveryFailed(c, "found", "none", found, found \ bad)
       ELSE IF speakers_cache # <<>>
         THEN /\ speakers_cache' = <<>>
              /\ outcome' = NoOutcome
              /\ UNCHANGED <<last_discovery, discovery_lock, pc, force, age,
                             behind>>
         ELSE \E order \in Orderings(MulticastFilter(found)) :
                /\ speakers_cache' = order
                /\ last_discovery' = now
                /\ outcome' = Discovered(c, force[c], age[c], "found", "none",
                                         found, found \ bad, <<>>, FALSE,
                                         Keys(order))
                /\ Finish(c, Keys(order), TRUE)
                /\ discovery_lock' = Free
  /\ UNCHANGED <<waiters, now>>

\* MulticastFound that adds what it found to the snapshot it has.
MulticastFound_Merges(c, found, bad) ==
  /\ pc[c] = "multicast"
  /\ found # {}
  /\ IF found \cap bad # {}
       THEN DiscoveryFailed(c, "found", "none", found, found \ bad)
       ELSE \E order \in Orderings(MulticastFilter(found)) :
              LET merged == speakers_cache
                            \o SelectSeq(order, LAMBDA d : d \notin Range(speakers_cache))
              IN /\ speakers_cache' = merged
                 /\ last_discovery' = now
                 /\ outcome' = Discovered(c, force[c], age[c], "found", "none",
                                          found, found \ bad, <<>>, FALSE,
                                          Keys(merged))
                 /\ Finish(c, Keys(merged), TRUE)
                 /\ discovery_lock' = Free
  /\ UNCHANGED <<waiters, now>>

\* MulticastFound returning the names of all the devices found, while the
\* snapshot keeps the visible named ones.
MulticastFound_ReturnsAllNames(c, found, bad) ==
  /\ pc[c] = "multicast"
  /\ found # {}
  /\ IF found \cap bad # {}
       THEN DiscoveryFailed(c, "found", "none", found, found \ bad)
       ELSE \E order \in Orderings(MulticastFilter(found)), all \in Orderings(found) :
              /\ speakers_cache' = order
              /\ last_discovery' = now
              /\ outcome' = Discovered(c, force[c], age[c], "found", "none",
                                       found, found \ bad, <<>>, FALSE, Keys(all))
              /\ Finish(c, Keys(all), TRUE)
              /\ discovery_lock' = Free
  /\ UNCHANGED <<waiters, now>>

\* Lines 115-126: soco.discover returned the non-empty set found; reading the
\* name or the visibility of a device in bad raises.
MulticastFound(c, found, bad) ==
  /\ pc[c] = "multicast"
  /\ found # {}
  /\ IF found \cap bad # {}
       THEN DiscoveryFailed(c, "found", "none", found, found \ bad)
       ELSE \E order \in Orderings(MulticastFilter(found)) :
              /\ speakers_cache' = order
              /\ last_discovery' = now
              /\ outcome' = Discovered(c, force[c], age[c], "found", "none",
                                       found, found \ bad, <<>>, FALSE,
                                       Keys(order))
              /\ Finish(c, Keys(order), TRUE)
              /\ discovery_lock' = Free
  /\ UNCHANGED <<waiters, now>>

\* MulticastEmpty giving up at once: no scan, the empty list is returned.
MulticastEmpty_NoFallback(c) ==
  /\ pc[c] = "multicast"
  /\ outcome' = Discovered(c, force[c], age[c], "empty", "none", {}, {}, <<>>,
                           FALSE, <<>>)
  /\ Finish(c, <<>>, FALSE)
  /\ discovery_lock' = Free
  /\ UNCHANGED <<speakers_cache, last_discovery, waiters, now>>

\* Lines 127-130: soco.discover returned None or an empty set; start the scan.
MulticastEmpty(c) ==
  /\ pc[c] = "multicast"
  /\ pc' = [pc EXCEPT ![c] = "ipscan"]
  /\ outcome' = NoOutcome
  /\ UNCHANGED <<speakers_cache, last_discovery, discovery_lock, waiters, now,
                 force, age, behind>>

\* MulticastRaised that forgets the snapshot.
MulticastRaised_DropsSnapshot(c) ==
  /\ pc[c] = "multicast"
  /\ outcome' = Discovered(c, force[c], age[c], "raised", "none", {}, {}, <<>>,
                           TRUE, <<>>)
  /\ Finish(c, <<>>, FALSE)
  /\ discovery_lock' = Free
  /\ speakers_cache' = <<>>
  /\ last_discovery' = NoTime
  /\ UNCHANGED <<waiters, now>>

\* Lines 115, 138-140: soco.discover raised.
MulticastRaised(c) ==
  /\ pc[c] = "multicast"
  /\ DiscoveryFailed(c, "raised", "none", {}, {})
  /\ UNCHANGED <<waiters, now>>

\* ScanFilter without the test of is_visible.
ScanFilter_KeepsHidden(responding, bad) ==
  {d \in responding \ bad : player_name[d] # ""}

\* _discover_by_ip_scan, lines 70-95: of the addresses that answered the
\* probe, keep the visible named devices; a device in bad raises when it is
\* connected to and is skipped.
ScanFilter(responding, bad) ==
  {d \in responding \ bad : is_visible[d] /\ player_name[d] # ""}

\* ScanDone without the test "if scanned": an empty scan replaces the snapshot.
ScanDone_AlwaysInstalls(c, responding, bad) ==
  /\ pc[c] = "ipscan"
  /\ \E scanned \in Orderings(ScanFilter(responding, bad)) :
       /\ speakers_cache' = scanned
       /\ last_discovery' = now
       /\ outcome' = Discovered(c, force[c], age[c], "empty",
                                IF scanned # <<>> THEN "found" ELSE "empty",
                                responding, responding \ bad, scanned, FALSE,
                                Keys(scanned))
       /\ Finish(c, Keys(scanned), TRUE)
  /\ discovery_lock' = Free
  /\ UNCHANGED <<waiters, now>>

\* Lines 130-136: the scan returned.
ScanDone(c, responding, bad) ==
  /\ pc[c] = "ipscan"
  /\ \E scanned \in Orderings(ScanFilter(responding, bad)) :
       IF scanned # <<>>
         THEN /\ speakers_cache' = scanned
              /\ last_discovery' = now
              /\ outcome' = Discovered(c, force[c], age[c], "empty", "found",
                                       responding, responding \ bad, scanned,
                                       FALSE, Keys(scanned))
              /\ Finish(c, Keys(scanned), TRUE)
         ELSE /\ outcome' = Discovered(c, force[c], age[c], "empty", "empty",
                                       responding, responding \ bad, scanned,
                                       FALSE, <<>>)
              /\ Finish(c, <<>>, FALSE)
              /\ UNCHANGED <<speakers_cache, last_discovery>>
  /\ discovery_lock' = Free
  /\ UNCHANGED <<waiters, now>>

\* Lines 130, 138-140: the scan could not be run (to_thread or the pool raised).
ScanRaised(c) ==
  /\ pc[c] = "ipscan"
  /\ DiscoveryFailed(c, "empty", "raised", {}, {})
  /\ UNCHANGED <<waiters, now>>

\* Time passes.
Tick(s) ==
  /\ now + s <= MaxNow
  /\ now' = now + s
  /\ outcome' = NoOutcome
  /\ UNCHANGED <<speakers_cache, last_discovery, discovery_lock, waiters,
                 pc, force, age, behind, request>>

Next ==
  \/ \E c \in Callers, f \in BOOLEAN : Call(c, f) /\ UNCHANGED request
  \/ \E c \in Callers : Wake(c) /\ UNCHANGED request
  \/ \E c \in Callers, found \in SUBSET Devices :
       \E bad \in {{}} \cup {{d} : d \in found} : MulticastFound(c, found, bad)
         /\ UNCHANGED request
  \/ \E c \in Callers : MulticastEmpty(c) /\ UNCHANGED request
  \/ \E c \in Callers : MulticastRaised(c) /\ UNCHANGED request
  \/ \E c \in Callers, responding \in SUBSET Devices :
       \E bad \in {{}} \cup {{d} : d \in responding} : ScanDone(c, responding, bad)
         /\ UNCHANGED request
  \/ \E c \in Callers : ScanRaised(c) /\ UNCHANGED request
  \/ \E s \in ClockSteps : Tick(s)

Spec == Init /\ [][Next]_vars

\* The step that ends multicast discovery of caller c, whatever it finds.
MulticastStep(c) ==
  /\ pc[c] = "multicast"
  /\ \/ MulticastEmpty(c)
     \/ MulticastRaised(c)
     \/ \E found \in SUBSET Devices :
          \E bad \in {{}} \cup {{d} : d \in found} : MulticastFound(c, found, bad)

\* The step that ends the IP scan of caller c, whatever it finds.
ScanStep(c) ==
  /\ pc[c] = "ipscan"
  /\ \/ ScanRaised(c)
     \/ \E responding \in SUBSET Devices :
          \E bad \in {{}} \cup {{d} : d \in responding} : ScanDone(c, responding, bad)

\* The calls without the clock.
NextLive ==
  \/ \E c \in Callers, f \in BOOLEAN : Call(c, f) /\ UNCHANGED request
  \/ \E c \in Callers : Wake(c) /\ UNCHANGED request
  \/ \E c \in Callers : MulticastStep(c) /\ UNCHANGED request
  \/ \E c \in Callers : ScanStep(c) /\ UNCHANGED request

\* soco.discover is given a timeout of 5 seconds (line 115) and every probe of
\* the IP scan one of 3 (lines 51-56): a network call that was started ends.
\* The event loop runs a task that waits for the lock once the lock is free
\* and the task is first in line.  Of the three steps of a call at most one
\* is possible at a time.
Fairness ==
  \A c \in Callers :
    WF_vars((Wake(c) \/ MulticastStep(c) \/ ScanStep(c)) /\ UNCHANGED request)

SpecLive == Init /\ [][NextLive]_vars /\ Fairness

(***************************************************************************)
(* Playback control.  What a device reports about its group is the state   *)
(* of the household at the time of the query, which any controller may     *)
(* have changed: it is an input of each request.                           *)
(***************************************************************************)

\* _get_speaker returned None.
NoDevice == "no device"

\* The names a request may carry: those of the devices and an unknown one.
Names == {player_name[d] : d \in Devices} \cup {"Attic"}

\* What a device can report when asked for its group: the query raises, or
\* device.group is None (group = FALSE), or it is a group with a coordinator.
ZoneViews ==
  {[raises |-> TRUE, group |-> FALSE, coordinator |-> NoDevice],
   [raises |-> FALSE, group |-> FALSE, coordinator |-> NoDevice]}
  \cup [raises : {FALSE}, group : {TRUE}, coordinator : Devices]

\* device.is_coordinator
IsCoordinator(device, zone) == zone.coordinator = device

\* _get_speaker, lines 142-151: self._speakers_cache.get(name)
GetSpeaker(name) ==
  IF \E i \in DOMAIN speakers_cache : player_name[speakers_cache[i]] = name
    THEN speakers_cache[CHOOSE i \in DOMAIN speakers_cache :
                          player_name[speakers_cache[i]] = name]
    ELSE NoDevice

\* _get_playback_device without the redirection to the coordinator.
GetPlaybackDevice_Self(device, zone) == device

\* _get_playback_device, lines 264-281
GetPlaybackDevice(device, zone) ==
  IF zone.raises THEN device
  ELSE IF zone.group /\ ~IsCoordinator(device, zone) THEN zone.coordinator
  ELSE device

\* Play that makes the device call a second time when the first one raised.
Play_Retries(name, zone, call_raises) ==
  /\ LET device == GetSpeaker(name) IN
       outcome' =
         IF device = NoDevice
           THEN [kind |-> "play", name |-> name, device |-> NoDevice,
                 zone |-> zone, called |-> <<>>, ok |-> FALSE]
         ELSE IF call_raises
           THEN [kind |-> "play", name |-> name, device |-> device,
                 zone |-> zone,
                 called |-> <<GetPlaybackDevice(device, zone),
                              GetPlaybackDevice(device, zone)>>,
                 raised |-> TRUE, ok |-> TRUE]
           ELSE [kind |-> "play", name |-> name, device |-> device,
                 zone |-> zone,
                 called |-> <<GetPlaybackDevice(device, zone)>>,
                 raised |-> FALSE, ok |-> TRUE]
  /\ UNCHANGED <<speakers_cache, last_discovery, discovery_lock, waiters, now,
                 pc, force, age, behind, request>>

\* play, lines 309-325: the request names a speaker; the device call is made
\* on the playback device and may raise (raised); the result is ok.
Play(name, zone, call_raises) ==
  /\ LET device == GetSpeaker(name) IN
       outcome' =
         IF device = NoDevice
           THEN [kind |-> "play", name |-> name, device |-> NoDevice,
                 zone |-> zone, called |-> <<>>, ok |-> FALSE]
           ELSE [kind |-> "play", name |-> name, device |-> device,
                 zone |-> zone,
                 called |-> <<GetPlaybackDevice(device, zone)>>,
                 raised |-> call_raises, ok |-> ~call_raises]
  /\ UNCHANGED <<speakers_cache, last_discovery, discovery_lock, waiters, now,
                 pc, force, age, behind, request>>

\* The operations that, like play, resolve the playback device first and
\* make their device call on it: pause 327-343, stop 345-361, next_track
\* 363-379, previous_track 381-397, set_shuffle 888-912, set_repeat 946-979,
\* set_crossfade 1006-1030, set_sleep_timer 1057-1081, seek 1083-1107,
\* play_from_queue 1164-1188, clear_queue 1190-1213, remove_from_queue
\* 1215-1239, add_uri_to_queue 1241-1265.
TransportOps ==
  {"pause", "stop", "next_track", "previous_track", "set_shuffle",
   "set_repeat", "set_crossfade", "set_sleep_timer", "seek",
   "play_from_queue", "clear_queue", "remove_from_queue", "add_uri_to_queue"}

\* One of TransportOps: False when the name is not in the snapshot, else the
\* device call on the playback device, True unless it raises.
Transport(op, name, zone, call_raises) ==
  /\ LET device == GetSpeaker(name) IN
       outcome' =
         IF device = NoDevice
           THEN [kind |-> op, name |-> name, device |-> NoDevice,
                 called |-> <<>>, ok |-> FALSE]
           ELSE [kind |-> op, name |-> name, device |-> device,
                 zone |-> zone,
                 called |-> <<GetPlaybackDevice(device, zone)>>,
                 raised |-> call_raises, ok |-> ~call_raises]
  /\ UNCHANGED <<speakers_cache, last_discovery, discovery_lock, waiters, now,
                 pc, force, age, behind, request>>

\* play_uri, lines 1457-1476: device.play_uri is called on the device that
\* _get_speaker returned; the group of the device is not asked for.
PlayUri(name, zone, call_raises) ==
  /\ LET device == GetSpeaker(name) IN
       outcome' =
         IF device = NoDevice
           THEN [kind |-> "play_uri", name |-> name, device |-> NoDevice,
                 called |-> <<>>, ok |-> FALSE]
           ELSE [kind |-> "play_uri", name |-> name, device |-> device,
                 zone |-> zone, called |-> <<device>>,
                 raised |-> call_raises, ok |-> ~call_raises]
  /\ UNCHANGED <<speakers_cache, last_discovery, discovery_lock, waiters, now,
                 pc, force, age, behind, request>>

\* The volumes a request may carry, in and out of range.
Volumes == {-1, 0, 50, 100, 101}

\* set_volume, lines 399-410: the volume is clamped to 0..100 and set on the
\* named device itself.
SetVolume(name, volume, call_raises) ==
  /\ LET device == GetSpeaker(name)
         clamped == IF volume < 0 THEN 0 ELSE IF volume > 100 THEN 100 ELSE volume
     IN outcome' =
          IF device = NoDevice
            THEN [kind |-> "set_volume", name |-> name, device |-> NoDevice,
                  called |-> <<>>, ok |-> FALSE]
            ELSE [kind |-> "set_volume", name |-> name, device |-> device,
                  called |-> <<device>>, value |-> clamped,
                  raised |-> call_raises, ok |-> ~call_raises]
  /\ UNCHANGED <<speakers_cache, last_discovery, discovery_lock, waiters, now,
                 pc, force, age, behind, request>>

\* The operations that make one call on the named device itself: set_mute
\* 478-488, ungroup_speaker 775-793, party_mode 795-813, set_group_volume
\* 842-861.
DeviceOps == {"set_mute", "ungroup_speaker", "party_mode", "set_group_volume"}

\* OnDevice in which a device whose call failed is dropped from the snapshot.
OnDevice_ForgetsFailed(op, name, call_raises) ==
  /\ LET device == GetSpeaker(name) IN
       /\ outcome' =
            IF device = NoDevice
              THEN [kind |-> op, name |-> name, device |-> NoDevice,
                    called |-> <<>>, ok |-> FALSE]
              ELSE [kind |-> op, name |-> name, device |-> device,
                    called |-> <<device>>,
                    raised |-> call_raises, ok |-> ~call_raises]
       /\ speakers_cache' =
            IF device # NoDevice /\ call_raises
              THEN SelectSeq(speakers_cache, LAMBDA d : d # device)
              ELSE speakers_cache
  /\ UNCHANGED <<last_discovery, discovery_lock, waiters, now,
                 pc, force, age, behind, request>>

\* One of DeviceOps: False when the name is not in the snapshot, else the
\* call on the named device, True unless it raises.
OnDevice(op, name, call_raises) ==
  /\ LET device == GetSpeaker(name) IN
       outcome' =
         IF device = NoDevice
           THEN [kind |-> op, name |-> name, device |-> NoDevice,
                 called |-> <<>>, ok |-> FALSE]
           ELSE [kind |-> op, name |-> name, device |-> device,
                 called |-> <<device>>,
                 raised |-> call_raises, ok |-> ~call_raises]
  /\ UNCHANGED <<speakers_cache, last_discovery, discovery_lock, waiters, now,
                 pc, force, age, behind, request>>

\* group_speakers, lines 752-773: both names are looked up; the member
\* device joins the coordinator device.
GroupSpeakers(coordinator, member, call_raises) ==
  /\ LET coord_device == GetSpeaker(coordinator)
         member_device == GetSpeaker(member)
     IN outcome' =
          IF coord_device = NoDevice \/ member_device = NoDevice
            THEN [kind |-> "group_speakers", name |-> member,
                  device |-> member_device, with |-> coord_device,
                  called |-> <<>>, ok |-> FALSE]
            ELSE [kind |-> "group_speakers", name |-> member,
                  device |-> member_device, with |-> coord_device,
                  called |-> <<member_device>>,
                  raised |-> call_raises, ok |-> ~call_raises]
  /\ UNCHANGED <<speakers_cache, last_discovery, discovery_lock, waiters, now,
                 pc, force, age, behind, request>>

\* ungroup_all, lines 815-840: the named device is asked for all zones, and
\* every zone that is visible and not a coordinator (members: the zones that
\* report is_coordinator false) is told to leave its group; a zone that
\* refuses is passed over.
UngroupAll(name, members, call_raises) ==
  /\ LET device == GetSpeaker(name) IN
       outcome' =
         IF device = NoDevice
           THEN [kind |-> "ungroup_all", name |-> name, device |-> NoDevice,
                 called |-> <<>>, unjoined |-> {}, ok |-> FALSE]
         ELSE IF call_raises
           THEN [kind |-> "ungroup_all", name |-> name, device |-> device,
                 called |-> <<device>>, unjoined |-> {},
                 raised |-> TRUE, ok |-> FALSE]
           ELSE [kind |-> "ungroup_all", name |-> name, device |-> device,
                 called |-> <<device>>,
                 unjoined |-> {z \in members : is_visible[z]},
                 raised |-> FALSE, ok |-> TRUE]
  /\ UNCHANGED <<speakers_cache, last_discovery, discovery_lock, waiters, now,
                 pc, force, age, behind, request>>

\* What the devices that a snapshot can hold answer when asked
\* is_coordinator: true, or something else (false, or the query raises).
CoordinatorAnswers == [MulticastFilter(Devices) -> {"yes", "no or raises"}]

\* _get_any_coordinator, lines 490-506: the first device of the mapping, in
\* its insertion order, that answers is_coordinator with true; a device that
\* answers false or whose answer raises is passed over; if there is none, the first device of the
\* mapping, or None for an empty mapping.  The loop and the fallback each
\* read self._speakers_cache once, in a worker thread; as the answers are
\* free, every device the two reads can come to is one that a single read
\* comes to as well.
AnyCoordinator(cache, is_coordinator) ==
  IF \E i \in DOMAIN cache : is_coordinator[cache[i]] = "yes"
    THEN cache[CHOOSE i \in DOMAIN cache :
                 /\ is_coordinator[cache[i]] = "yes"
                 /\ \A j \in 1..(i - 1) : is_coordinator[cache[j]] # "yes"]
  ELSE IF cache # <<>> THEN cache[1]
  ELSE NoDevice

\* get_favorites, lines 508-536: when the name is not in the snapshot any
\* coordinator of the snapshot takes its place; the favorites are asked of
\* the group coordinator of that device, or of the device itself when
\* device.group.coordinator raises.
GetFavorites(name, is_coordinator, zone) ==
  /\ LET named == GetSpeaker(name)
         device == IF named # NoDevice THEN named
                   ELSE AnyCoordinator(speakers_cache, is_coordinator)
         asked == IF zone.raises \/ ~zone.group THEN device
                  ELSE zone.coordinator
     IN outcome' =
          IF device = NoDevice
            THEN [kind |-> "get_favorites", name |-> name, device |-> named,
                  called |-> <<>>, ok |-> FALSE]
            ELSE [kind |-> "get_favorites", name |-> name, device |-> named,
                  zone |-> zone, called |-> <<asked>>, ok |-> TRUE]
  /\ UNCHANGED <<speakers_cache, last_discovery, discovery_lock, waiters, now,
                 pc, force, age, behind, request>>

\* One handler at a time runs discovery; the others issue control requests.
NextControl ==
  \/ \E f \in BOOLEAN : Call(1, f) /\ UNCHANGED request
  \/ \E found \in SUBSET Devices :
       \E bad \in {{}} \cup {{d} : d \in found} : MulticastFound(1, found, bad)
         /\ UNCHANGED request
  \/ MulticastEmpty(1) /\ UNCHANGED request
  \/ MulticastRaised(1) /\ UNCHANGED request
  \/ \E responding \in SUBSET Devices :
       \E bad \in {{}} \cup {{d} : d \in responding} : ScanDone(1, responding, bad)
         /\ UNCHANGED request
  \/ ScanRaised(1) /\ UNCHANGED request
  \/ \E s \in ClockSteps : Tick(s)
  \/ \E name \in Names, zone \in ZoneViews, call_raises \in BOOLEAN :
       Play(name, zone, call_raises)

SpecControl == Init /\ [][NextControl]_vars

\* Discovery by one handler, with requests of every kind made before, during
\* and after it.
NextOps ==
  \/ \E f \in BOOLEAN : Call(1, f) /\ UNCHANGED request
  \/ \E found \in SUBSET Devices :
       \E bad \in {{}} \cup {{d} : d \in found} : MulticastFound(1, found, bad)
         /\ UNCHANGED request
  \/ MulticastEmpty(1) /\ UNCHANGED request
  \/ MulticastRaised(1) /\ UNCHANGED request
  \/ \E responding \in SUBSET Devices :
       \E bad \in {{}} \cup {{d} : d \in responding} : ScanDone(1, responding, bad)
         /\ UNCHANGED request
  \/ ScanRaised(1) /\ UNCHANGED request
  \/ \E name \in Names, zone \in ZoneViews, call_raises \in BOOLEAN :
       Play(name, zone, call_raises)
  \/ \E op \in TransportOps, name \in Names, zone \in ZoneViews,
        call_raises \in BOOLEAN : Transport(op, name, zone, call_raises)
  \/ \E name \in Names, zone \in ZoneViews, call_raises \in BOOLEAN :
       PlayUri(name, zone, call_raises)
  \/ \E name \in Names, volume \in Volumes, call_raises \in BOOLEAN :
       SetVolume(name, volume, call_raises)
  \/ \E op \in DeviceOps, name \in Names, call_raises \in BOOLEAN :
       OnDevice(op, name, call_raises)
  \/ \E coordinator \in Names, member \in Names, call_raises \in BOOLEAN :
       GroupSpeakers(coordinator, member, call_raises)
  \/ \E name \in Names, members \in SUBSET Devices, call_raises \in BOOLEAN :
       UngroupAll(name, members, call_raises)
  \/ \E name \in Names, zone \in ZoneViews,
        is_coordinator \in CoordinatorAnswers :
       GetFavorites(name, is_coordinator, zone)

SpecOps == Init /\ [][NextOps]_vars

(***************************************************************************)
(* Group listing.  get_groups asks the first device of the snapshot for    *)
(* all zones of the household and turns what they report into a list of    *)
(* groups.  The reports are the input: the list of zones, where each       *)
(* device is the coordinator of its group (coordinator_of), and the place  *)
(* in the list at which a query raises (fails_at, 0 for nowhere).          *)
(***************************************************************************)
MaxZones == 3

\* device.all_zones: any zones in any order; a device may be reported by
\* more than one entry.
ZoneLists == UNION {[1..n -> Devices] : n \in 0..MaxZones}

\* Every device is in the group of one coordinator, and a coordinator is in
\* its own group.
Households ==
  {f \in [Devices -> Devices] : \A d \in Devices : f[f[d]] = f[d]}

AllZones ==
  {[kind |-> "all_zones", zones |-> zones, coordinator_of |-> f,
    fails_at |-> k] :
     zones \in ZoneLists, f \in Households, k \in 0..MaxZones}

\* The snapshot holds the two named visible devices; a request for the
\* groups is about to be answered from the reports in outcome.
InitGroups ==
  /\ speakers_cache \in Orderings(MulticastFilter(Devices))
  /\ last_discovery = 0
  /\ discovery_lock = Free
  /\ waiters = <<>>
  /\ now = 0
  /\ pc = [c \in Callers |-> "idle"]
  /\ force = [c \in Callers |-> FALSE]
  /\ age = [c \in Callers |-> NoTime]
  /\ behind = [c \in Callers |-> NotBehind]
  /\ outcome \in AllZones
  /\ request = NoRequest

\* AlreadySeen that remembers no coordinator.
AlreadySeen_Never(coord_name, seen_coordinators) == FALSE

\* line 729: coord_name in seen_coordinators
AlreadySeen(coord_name, seen_coordinators) == coord_name \in seen_coordinators

\* GroupMembers without the test of m.is_visible.
GroupMembers_KeepsHidden(zone, coordinator_of) ==
  {player_name[m] :
     m \in {x \in Devices : /\ coordinator_of[x] = coordinator_of[zone]
                            /\ player_name[x] # player_name[zone]}}

\* lines 733-740: the names of the members of the zone's group that are
\* visible and not named as the coordinator is (a zone without a group and a
\* zone alone in its group both give no names).  zone.group.members is a set:
\* the order of the names in the list is the order of its iteration.
GroupMembers(zone, coordinator_of) ==
  {player_name[m] :
     m \in {x \in Devices : /\ coordinator_of[x] = coordinator_of[zone]
                            /\ player_name[x] # player_name[zone]
                            /\ is_visible[x]}}

\* _get_groups_sync, lines 717-750, from the i-th zone on: a zone that is a
\* visible coordinator whose name was not seen yet adds a group; an
\* exception ends the loop and the groups found so far are returned.
RECURSIVE GetGroupsSync(_, _, _, _, _, _)
GetGroupsSync(zones, coordinator_of, fails_at, i, seen_coordinators, groups) ==
  IF i > Len(zones) \/ i = fails_at THEN groups
  ELSE LET zone == zones[i]
           coord_name == player_name[zone]
       IN IF /\ coordinator_of[zone] = zone
             /\ is_visible[zone]
             /\ ~AlreadySeen(coord_name, seen_coordinators)
            THEN GetGroupsSync(zones, coordinator_of, fails_at, i + 1,
                               seen_coordinators \cup {coord_name},
                               Append(groups,
                                      [coordinator |-> coord_name,
                                       members |-> GroupMembers(zone, coordinator_of)]))
            ELSE GetGroupsSync(zones, coordinator_of, fails_at, i + 1,
                               seen_coordinators, groups)

\* get_groups, lines 695-715, with a snapshot that is not empty: the groups
\* that _get_groups_sync makes of the reports.
GetGroups ==
  /\ speakers_cache # <<>>
  /\ outcome.kind = "all_zones"
  /\ outcome' = [kind |-> "get_groups", asked |-> speakers_cache[1],
                 zones |-> outcome.zones,
                 coordinator_of |-> outcome.coordinator_of,
                 groups |-> GetGroupsSync(outcome.zones, outcome.coordinator_of,
                                          outcome.fails_at, 1, {}, <<>>)]
  /\ UNCHANGED <<speakers_cache, last_discovery, discovery_lock, waiters, now,
                 pc, force, age, behind, request>>

NextGroups == GetGroups

SpecGroups == InitGroups /\ [][NextGroups]_vars

(***************************************************************************)
(* The REST router and the MCP tools in front of it.  A tool formats its   *)
(* arguments into the path of a request; the router parses the path and    *)
(* calls the service.  Path segments are sequences of characters.          *)
(***************************************************************************)

\* The characters of the decimal digits, the digit d at index d + 1.
DigitChars == <<"0", "1", "2", "3", "4", "5", "6", "7", "8", "9">>

\* str(n) of a natural number, as an f-string formats it.
RECURSIVE Str(_)
Str(n) ==
  IF n < 10 THEN <<DigitChars[n + 1]>>
  ELSE Str(n \div 10) \o <<DigitChars[(n % 10) + 1]>>

\* int(s) raises ValueError.
ValueError == -1

\* The value of one digit character.
DigitValue(ch) == (CHOOSE i \in DOMAIN DigitChars : DigitChars[i] = ch) - 1

\* int(s) for a segment without sign, blank or underscore: the number
\* written by the digits of s, and ValueError when s is empty or holds a
\* character that is not a digit.
RECURSIVE ParseInt(_)
ParseInt(s) ==
  IF s = <<>> \/ \E i \in DOMAIN s : s[i] \notin Range(DigitChars)
    THEN ValueError
  ELSE IF Len(s) = 1 THEN DigitValue(s[1])
  ELSE ParseInt(SubSeq(s, 1, Len(s) - 1)) * 10 + DigitValue(s[Len(s)])

\* s.split(":"): the pieces of s between the colons.
RECURSIVE Split(_)
Split(s) ==
  IF \A i \in DOMAIN s : s[i] # ":" THEN <<s>>
  ELSE LET k == CHOOSE i \in DOMAIN s :
                  s[i] = ":" /\ \A j \in 1..(i - 1) : s[j] # ":"
       IN <<SubSeq(s, 1, k - 1)>> \o Split(SubSeq(s, k + 1, Len(s)))

\* The seconds argument that cancels the timer.
None == -2

\* The minutes a set_sleep_timer tool call may carry (schema, minimum 0).
SleepMinutes == {0, 1, 30, 120}

\* The duration segments a REST client may send.
Durations ==
  {Str(30), Str(30) \o <<"m">>, <<"0", ":", "3", "0", ":", "0", "0">>,
   <<"1", ":", "3", "0">>, <<>>}

\* Router set_sleep_timer, lines 319-336: the seconds parsed from the
\* duration segment, ValueError standing for the 400 response.
ParseDuration(duration) ==
  IF \E i \in DOMAIN duration : duration[i] = ":"
    THEN LET parts == Split(duration) IN
         IF Len(parts) < 3 THEN ValueError
         ELSE LET hours == ParseInt(parts[1])
                  minutes == ParseInt(parts[2])
                  seconds == ParseInt(parts[3])
              IN IF ValueError \in {hours, minutes, seconds} THEN ValueError
                 ELSE hours * 3600 + minutes * 60 + seconds
  ELSE LET minutes == ParseInt(duration) IN
       IF minutes = ValueError THEN ValueError ELSE minutes * 60

\* SoCoService.set_sleep_timer, lines 1057-1081, as the response of the
\* router: False without a device call when the name is not in the
\* snapshot, else set_sleep_timer(seconds) on the playback device.
SetSleepTimer(name, seconds, zone, call_raises) ==
  LET device == GetSpeaker(name) IN
    IF device = NoDevice
      THEN [status |-> 200, called |-> <<>>, raised |-> FALSE, ok |-> FALSE]
      ELSE [status |-> 200, seconds |-> seconds,
            called |-> <<GetPlaybackDevice(device, zone)>>,
            raised |-> call_raises, ok |-> ~call_raises]

\* The 400 response of the router: the service was not called.
BadRequest ==
  [status |-> 400, called |-> <<>>, raised |-> FALSE, ok |-> FALSE]

\* POST /speakers/{speaker_name}/sleep/{duration}, lines 319-336
PostSleep(name, duration, zone, call_raises) ==
  LET seconds == ParseDuration(duration) IN
    IF seconds = ValueError THEN BadRequest
    ELSE SetSleepTimer(name, seconds, zone, call_raises)

\* DELETE /speakers/{speaker_name}/sleep, lines 338-342
DeleteSleep(name, zone, call_raises) ==
  SetSleepTimer(name, None, zone, call_raises)

\* A REST client sets a sleep timer.
SleepEndpoint(name, duration, zone, call_raises) ==
  /\ outcome' = [kind |-> "post_sleep", name |-> name, duration |-> duration,
                 zone |-> zone,
                 response |-> PostSleep(name, duration, zone, call_raises)]
  /\ UNCHANGED <<speakers_cache, last_discovery, discovery_lock, waiters, now,
                 pc, force, age, behind, request>>

\* The MCP tool set_sleep_timer, tools.py lines 614-620, through
\* SonosApiClient.set_sleep_timer and cancel_sleep_timer, api_client.py
\* lines 136-142: minutes 0 is sent as DELETE, any other value as POST with
\* the segment f"{minutes}m".  A 400 response makes raise_for_status raise
\* and the tool answer with the error text.
ToolSetSleepTimer(name, minutes, zone, call_raises) ==
  /\ LET response ==
           IF minutes = 0 THEN DeleteSleep(name, zone, call_raises)
           ELSE PostSleep(name, Str(minutes) \o <<"m">>, zone, call_raises)
     IN outcome' = [kind |-> "tool_set_sleep_timer", name |-> name,
                    minutes |-> minutes, zone |-> zone,
                    response |-> response,
                    error |-> response.status # 200]
  /\ UNCHANGED <<speakers_cache, last_discovery, discovery_lock, waiters, now,
                 pc, force, age, behind, request>>

\* The longest queue a device holds.
MaxQueue == 3

\* The track the device call play_from_queue(index) starts, counted from 1:
\* the index counts from 0 (lines 597-599 and 1171), and an index past the
\* end of the queue makes the call raise (NoTrack).
NoTrack == 0
Started(index, queue_len) ==
  IF index >= 0 /\ index < queue_len THEN index + 1 ELSE NoTrack

\* SoCoService.play_from_queue, lines 1164-1188, as the response of the
\* router: False without a device call when the name is not in the
\* snapshot, else play_from_queue(position) on the playback device.
PlayFromQueue(name, position, queue_len, zone) ==
  LET device == GetSpeaker(name)
      started == Started(position, queue_len)
  IN IF device = NoDevice
       THEN [status |-> 200, called |-> <<>>, started |-> NoTrack,
             raised |-> FALSE, ok |-> FALSE]
       ELSE [status |-> 200, called |-> <<GetPlaybackDevice(device, zone)>>,
             index |-> position, started |-> started,
             raised |-> started = NoTrack, ok |-> started # NoTrack]

\* POST /speakers/{speaker_name}/queue/play/{track_number}, lines 527-531:
\* the segment is converted to int and passed on as the position.
PostQueuePlay(name, segment, queue_len, zone) ==
  LET track_number == ParseInt(segment) IN
    IF track_number = ValueError
      THEN [status |-> 422, called |-> <<>>, started |-> NoTrack,
            raised |-> FALSE, ok |-> FALSE]
      ELSE PlayFromQueue(name, track_number, queue_len, zone)

\* POST /speakers/{speaker_name}/queue/play, lines 534-538: position 1.
PlayQueueEndpoint(name, queue_len, zone) ==
  /\ outcome' = [kind |-> "post_queue_play_all", name |-> name,
                 queue_len |-> queue_len, zone |-> zone,
                 response |-> PlayFromQueue(name, 1, queue_len, zone)]
  /\ UNCHANGED <<speakers_cache, last_discovery, discovery_lock, waiters, now,
                 pc, force, age, behind, request>>

\* The MCP tool play_from_queue, tools.py lines 652-654, through
\* SonosApiClient.play_from_queue, api_client.py lines 188-190, and the
\* router: the track number is formatted into the path unchanged.
ToolPlayFromQueue(name, track_number, queue_len, zone) ==
  /\ outcome' = [kind |-> "tool_play_from_queue", name |-> name,
                 track_number |-> track_number, queue_len |-> queue_len,
                 zone |-> zone,
                 response |-> PostQueuePlay(name, Str(track_number),
                                            queue_len, zone)]
  /\ UNCHANGED <<speakers_cache, last_discovery, discovery_lock, waiters, now,
                 pc, force, age, behind, request>>

\* max(0, min(100, volume)), line 405
Clamp(volume) == IF volume < 0 THEN 0 ELSE IF volume > 100 THEN 100 ELSE volume

\* SoCoService.set_volume, lines 399-410, as the response of the router:
\* the clamped volume is set on the named device itself.
SetVolumeResponse(name, volume, call_raises) ==
  LET device == GetSpeaker(name) IN
    IF device = NoDevice
      THEN [status |-> 200, called |-> <<>>, raised |-> FALSE, ok |-> FALSE]
      ELSE [status |-> 200, called |-> <<device>>, value |-> Clamp(volume),
            raised |-> call_raises, ok |-> ~call_raises]

\* PostVolume without the range check of the router.
PostVolume_NoRangeCheck(name, volume, call_raises) ==
  SetVolumeResponse(name, volume, call_raises)

\* POST /speakers/{speaker_name}/volume/{volume}, lines 150-156
PostVolume(name, volume, call_raises) ==
  IF volume < 0 \/ volume > 100 THEN BadRequest
  ELSE SetVolumeResponse(name, volume, call_raises)

\* A REST client sets the volume; the segment is already converted to int.
VolumeEndpoint(name, volume, call_raises) ==
  /\ outcome' = [kind |-> "post_volume", name |-> name, volume |-> volume,
                 response |-> PostVolume(name, volume, call_raises)]
  /\ UNCHANGED <<speakers_cache, last_discovery, discovery_lock, waiters, now,
                 pc, force, age, behind, request>>

\* The MCP tool set_volume, tools.py lines 571-573, through
\* SonosApiClient.set_volume, api_client.py lines 80-82: the volume is
\* formatted into the path and converted back by the router.
ToolSetVolume(name, volume, call_raises) ==
  /\ outcome' = [kind |-> "tool_set_volume", name |-> name, volume |-> volume,
                 response |-> PostVolume(name, ParseInt(Str(volume)),
                                         call_raises)]
  /\ UNCHANGED <<speakers_cache, last_discovery, discovery_lock, waiters, now,
                 pc, force, age, behind, request>>

\* A snapshot that discovery may have installed is in place, captured at
\* time 0, or none is.
InitApi ==
  /\ speakers_cache \in UNION {Orderings(S) : S \in SUBSET MulticastFilter(Devices)}
  /\ last_discovery = IF speakers_cache = <<>> THEN NoTime ELSE 0
  /\ discovery_lock = Free
  /\ waiters = <<>>
  /\ now = 0
  /\ pc = [c \in Callers |-> "idle"]
  /\ force = [c \in Callers |-> FALSE]
  /\ age = [c \in Callers |-> NoTime]
  /\ behind = [c \in Callers |-> NotBehind]
  /\ outcome = NoOutcome
  /\ request = NoRequest

\* Requests to the router and tool calls, in any order.
NextApi ==
  \/ \E name \in Names, duration \in Durations, zone \in ZoneViews,
        call_raises \in BOOLEAN : SleepEndpoint(name, duration, zone, call_raises)
  \/ \E name \in Names, minutes \in SleepMinutes, zone \in ZoneViews,
        call_raises \in BOOLEAN : ToolSetSleepTimer(name, minutes, zone, call_raises)
  \/ \E name \in Names, queue_len \in 1..MaxQueue, zone \in ZoneViews :
       PlayQueueEndpoint(name, queue_len, zone)
  \/ \E name \in Names, track_number \in 1..MaxQueue, queue_len \in 1..MaxQueue,
        zone \in ZoneViews : ToolPlayFromQueue(name, track_number, queue_len, zone)
  \/ \E name \in Names, volume \in Volumes, call_raises \in BOOLEAN :
       SetVolume(name, volume, call_raises)
  \/ \E name \in Names, volume \in Volumes, call_raises \in BOOLEAN :
       VolumeEndpoint(name, volume, call_raises)
  \/ \E name \in Names, volume \in {v \in Volumes : v >= 0},
        call_raises \in BOOLEAN : ToolSetVolume(name, volume, call_raises)

SpecApi == InitApi /\ [][NextApi]_vars

(***************************************************************************)
(* Router requests that are suspended at an await while the snapshot may   *)
(* be replaced: the play/pause toggle between reading the state and        *)
(* sending the command, get_speaker_info during its forced discovery.      *)
(***************************************************************************)

\* _get_speaker on a given snapshot.
GetSpeakerIn(cache, name) ==
  IF \E i \in DOMAIN cache : player_name[cache[i]] = name
    THEN cache[CHOOSE i \in DOMAIN cache : player_name[cache[i]] = name]
    ELSE NoDevice

\* The values of current_transport_state.
PlaybackStates ==
  {"PLAYING", "PAUSED_PLAYBACK", "STOPPED", "TRANSITIONING", "UNKNOWN"}

\* The command the router chooses, lines 143-146.
Command_Reversed(state) == IF state = "PLAYING" THEN "play" ELSE "pause"

Command(state) == IF state = "PLAYING" THEN "pause" ELSE "play"

\* play_pause, lines 136-143, up to the await inside get_playback_state,
\* lines 283-307.  For a name that is not in the snapshot
\* get_playback_state returns UNKNOWN and play returns False without an
\* await in between: the request is complete, and no device was asked
\* (reads).  Otherwise the state is read in a thread, from the device or
\* its coordinator, and the handler is suspended; a read that raises gives
\* UNKNOWN.
PlayPauseRead(name, state, read_raises) ==
  /\ request = NoRequest
  /\ LET device == GetSpeaker(name) IN
       IF device = NoDevice
         THEN /\ outcome' = [kind |-> "play_pause", name |-> name,
                             present |-> FALSE, state |-> "UNKNOWN",
                             reads |-> 0, command |-> Command("UNKNOWN"),
                             device |-> NoDevice, called |-> <<>>,
                             ok |-> FALSE]
              /\ UNCHANGED request
         ELSE /\ request' = [kind |-> "play_pause", name |-> name,
                             state |-> IF read_raises THEN "UNKNOWN"
                                       ELSE state]
              /\ outcome' = NoOutcome
  /\ UNCHANGED <<speakers_cache, last_discovery, discovery_lock, waiters, now,
                 pc, force, age, behind>>

\* play_pause, lines 143-147, after the state was read: pause (lines
\* 327-343) or play (lines 309-325) looks the name up again.
PlayPauseCommand(zone, call_raises) ==
  /\ request.kind = "play_pause"
  /\ LET device == GetSpeaker(request.name) IN
       outcome' =
         IF device = NoDevice
           THEN [kind |-> "play_pause", name |-> request.name,
                 present |-> TRUE, state |-> request.state,
                 reads |-> 1, command |-> Command(request.state),
                 device |-> NoDevice, called |-> <<>>, ok |-> FALSE]
           ELSE [kind |-> "play_pause", name |-> request.name,
                 present |-> TRUE, state |-> request.state,
                 reads |-> 1, command |-> Command(request.state),
                 device |-> device, zone |-> zone,
                 called |-> <<GetPlaybackDevice(device, zone)>>,
                 raised |-> call_raises, ok |-> ~call_raises]
  /\ request' = NoRequest
  /\ UNCHANGED <<speakers_cache, last_discovery, discovery_lock, waiters, now,
                 pc, force, age, behind>>

\* The handler whose discover_speakers call get_speaker_info makes.
InfoCaller == 2

\* How _get_speaker_info_sync ends, lines 174-204: it returns, or raises a
\* SoCoException with an empty message, or another SoCoException, or
\* another exception.
InfoResults == {"ok", "satellite", "soco error", "error"}

\* The Speaker record that get_speaker_info returns, lines 162-206, with
\* the device calls it made: none when the name was not found.
SpeakerInfo(name, present_before, discovery, device, result) ==
  [kind |-> "get_speaker_info", name |-> name,
   present_before |-> present_before, discovery |-> discovery,
   device |-> device,
   called |-> IF device = NoDevice THEN <<>> ELSE <<device>>,
   is_offline |-> device = NoDevice \/ result = "soco error",
   error_message |-> IF device = NoDevice THEN "Speaker not found"
                     ELSE IF result = "ok" THEN "" ELSE result]

\* Of a finished discover_speakers call: its force argument, and whether it
\* went to the network.
Ran(discovered) ==
  [force |-> discovered.force, network |-> discovered.multicast # "none"]

\* InfoStart that asks for an unforced discovery.
InfoStart_Unforced(name, result) ==
  /\ request = NoRequest
  /\ pc[InfoCaller] = "idle"
  /\ LET device == GetSpeaker(name) IN
       IF device # NoDevice
         THEN /\ outcome' = SpeakerInfo(name, TRUE, <<>>, device, result)
              /\ UNCHANGED <<speakers_cache, last_discovery, discovery_lock,
                             waiters, now, pc, force, age, behind, request>>
         ELSE /\ Call(InfoCaller, FALSE)
              /\ request' = IF pc'[InfoCaller] = "idle"
                              THEN [kind |-> "get_speaker_info", name |-> name,
                                    stage |-> "looked up", discovery |-> <<Ran(outcome')>>,
                                    device |-> GetSpeakerIn(speakers_cache', name)]
                              ELSE [kind |-> "get_speaker_info", name |-> name,
                                    stage |-> "discovering"]

\* get_speaker_info, lines 162-167: a name of the snapshot goes on to the
\* device calls, which are made on the handle already looked up; for any
\* other name discover_speakers(force=True) is called.
InfoStart(name, result) ==
  /\ request = NoRequest
  /\ pc[InfoCaller] = "idle"
  /\ LET device == GetSpeaker(name) IN
       IF device # NoDevice
         THEN /\ outcome' = SpeakerInfo(name, TRUE, <<>>, device, result)
              /\ UNCHANGED <<speakers_cache, last_discovery, discovery_lock,
                             waiters, now, pc, force, age, behind, request>>
         ELSE /\ Call(InfoCaller, TRUE)
              /\ request' = [kind |-> "get_speaker_info", name |-> name,
                             stage |-> "discovering"]

\* A step of the discover_speakers call that get_speaker_info made.  When
\* the call returns, the handler looks the name up in the snapshot as it
\* then is, line 168, without an await in between.
InfoDiscovery ==
  /\ request.kind = "get_speaker_info"
  /\ request.stage = "discovering"
  /\ \/ Wake(InfoCaller)
     \/ MulticastStep(InfoCaller)
     \/ ScanStep(InfoCaller)
  /\ request' = IF pc'[InfoCaller] = "idle"
                  THEN [kind |-> "get_speaker_info", name |-> request.name,
                        stage |-> "looked up", discovery |-> <<Ran(outcome')>>,
                        device |-> GetSpeakerIn(speakers_cache', request.name)]
                  ELSE request

\* get_speaker_info, lines 170-206, after the second lookup.
InfoFinish(result) ==
  /\ request.kind = "get_speaker_info"
  /\ request.stage = "looked up"
  /\ outcome' = SpeakerInfo(request.name, FALSE, request.discovery,
                            request.device, result)
  /\ request' = NoRequest
  /\ UNCHANGED <<speakers_cache, last_discovery, discovery_lock, waiters, now,
                 pc, force, age, behind>>

\* Discovery by one handler, with play/pause and get_speaker_info requests
\* made before, during and after it.
NextRouter ==
  \/ \E f \in BOOLEAN : Call(1, f) /\ UNCHANGED request
  \/ Wake(1) /\ UNCHANGED request
  \/ MulticastStep(1) /\ UNCHANGED request
  \/ ScanStep(1) /\ UNCHANGED request
  \/ \E name \in Names, state \in PlaybackStates, read_raises \in BOOLEAN :
       PlayPauseRead(name, state, read_raises)
  \/ \E zone \in ZoneViews, call_raises \in BOOLEAN :
       PlayPauseCommand(zone, call_raises)
  \/ \E name \in Names, result \in InfoResults : InfoStart(name, result)
  \/ InfoDiscovery
  \/ \E result \in InfoResults : InfoFinish(result)

SpecRouter == Init /\ [][NextRouter]_vars

(***************************************************************************)
(* Properties of discover_speakers, stated on the outcome of the call that *)
(* the last step completed.                                                *)
(***************************************************************************)
IsDiscover == outcome.kind = "discover"

\* Both discovery paths came back with zero devices.
TotalFailure ==
  IsDiscover /\ outcome.multicast = "empty" /\ outcome.ipscan = "empty"

\* C1: a call with force = false that finds a snapshot younger than 300
\* seconds returns the names of that snapshot, starts neither multicast
\* discovery nor the IP scan, and leaves the snapshot and its capture time as
\* they were.
C1_FreshCacheServed ==
  (/\ IsDiscover
   /\ ~outcome.force
   /\ outcome.prior # <<>>
   /\ outcome.age # NoTime
   /\ outcome.age < FreshSeconds)
  => /\ outcome.ret = Keys(outcome.prior)
     /\ outcome.multicast = "none"
     /\ outcome.ipscan = "none"
     /\ speakers_cache = outcome.prior
     /\ last_discovery = outcome.prior_last

\* A call at T+299 was served both names from the cache.
C1_Witness ==
  /\ IsDiscover
  /\ ~outcome.force
  /\ outcome.age = FreshSeconds - 1
  /\ outcome.multicast = "none"
  /\ Len(outcome.ret) = 2

\* C2: when both discovery paths return zero devices and a non-empty snapshot
\* exists, the call returns the names of that snapshot.
C2_TotalFailureReturnsPrior ==
  (TotalFailure /\ outcome.prior # <<>>) => outcome.ret = Keys(outcome.prior)

\* C3: when both discovery paths return zero devices and a snapshot exists,
\* the snapshot and its capture time are what they were before the call.
C3_TotalFailureKeepsSnapshot ==
  (TotalFailure /\ outcome.prior # <<>>)
  => /\ speakers_cache = outcome.prior
     /\ last_discovery = outcome.prior_last

\* Both paths found nothing while a snapshot of two speakers existed.
C3_Witness ==
  /\ TotalFailure
  /\ Len(outcome.prior) = 2
  /\ outcome.prior_last # NoTime

\* The call was issued while another call held the lock, and ran right after it.
RanBehind == IsDiscover /\ outcome.behind.state = "finished"

Scanning == {c \in Callers : pc[c] \in {"multicast", "ipscan"}}

\* C5: at most one discovery scan is in flight.
C5_AtMostOneScanInFlight == Cardinality(Scanning) <= 1

\* A forced call waits for the lock while another call's IP scan is in flight.
C5_Witness ==
  \E c, w \in Callers :
    /\ pc[c] = "ipscan"
    /\ pc[w] = "waiting"
    /\ force[w]
    /\ speakers_cache # <<>>

\* C6: a call with force = true starts the multicast discovery whatever the
\* age of the snapshot.
C6_ForceAlwaysDiscovers ==
  (IsDiscover /\ outcome.force) => outcome.multicast # "none"

\* A forced call ran a discovery although the snapshot was younger than 300 s
\* when the call returned.
C6_Witness ==
  /\ IsDiscover
  /\ outcome.force
  /\ outcome.prior # <<>>
  /\ outcome.prior_last # NoTime
  /\ now - outcome.prior_last < FreshSeconds
  /\ outcome.multicast = "found"

\* C7: a call with force = false that finds the snapshot 300 seconds old or
\* older starts a discovery.
C7_StaleCacheRediscovers ==
  (/\ IsDiscover
   /\ ~outcome.force
   /\ outcome.age # NoTime
   /\ outcome.age >= FreshSeconds)
  => outcome.multicast # "none"

\* A call at exactly T+300 ran a discovery.
C7_Witness ==
  /\ IsDiscover
  /\ ~outcome.force
  /\ outcome.prior # <<>>
  /\ outcome.age = FreshSeconds
  /\ outcome.multicast = "found"

\* C8: when multicast discovery returns zero devices the IP scan is run, and
\* when the scan returns N > 0 devices the call returns exactly their N names
\* and the snapshot is exactly the scan's result.
C8_FallbackScanResult ==
  (IsDiscover /\ outcome.multicast = "empty")
  => /\ outcome.ipscan # "none"
     /\ outcome.ipscan = "found"
          => /\ outcome.scanned # <<>>
             /\ outcome.ret = Keys(outcome.scanned)
             /\ Len(outcome.ret) = Cardinality(Range(outcome.scanned))
             /\ speakers_cache = outcome.scanned

\* Multicast found nothing and the scan found two speakers.
C8_Witness ==
  /\ IsDiscover
  /\ outcome.multicast = "empty"
  /\ outcome.ipscan = "found"
  /\ Len(outcome.ret) = 2

\* The names of the devices that are not visible.
HiddenNames == {player_name[d] : d \in {x \in Devices : ~is_visible[x]}}

\* C9: a device that is not visible is never a value of the snapshot, and its
\* name is never in the list a call returns.
C9_HiddenNeverListed ==
  /\ \A i \in DOMAIN speakers_cache : is_visible[speakers_cache[i]]
  /\ Range(Keys(speakers_cache)) \cap HiddenNames = {}
  /\ IsDiscover => Range(outcome.ret) \cap HiddenNames = {}

\* An IP scan came across a device that is not visible and installed a snapshot.
C9_Witness ==
  /\ IsDiscover
  /\ outcome.hidden
  /\ outcome.ipscan = "found"
  /\ speakers_cache # <<>>

\* C15: discover_speakers returns a list whatever fails: after an exception
\* in multicast discovery or in the IP scan, or when both found nothing, the
\* call has returned and the list is the cached names or empty; it is empty
\* when both found nothing and there was no snapshot.
C15_FailureReturnsCachedOrEmpty ==
  (IsDiscover /\ (outcome.raised \/ TotalFailure))
  => /\ pc[outcome.caller] = "idle"
     /\ discovery_lock # outcome.caller
     /\ outcome.ret = Keys(outcome.prior) \/ outcome.ret = <<>>
     /\ outcome.raised => outcome.ret = Keys(outcome.prior)
     /\ (TotalFailure /\ outcome.prior = <<>>) => outcome.ret = <<>>

\* The IP scan raised while the snapshot held names: they are returned.
C15_Witness ==
  /\ IsDiscover
  /\ outcome.raised
  /\ outcome.ipscan = "raised"
  /\ outcome.prior # <<>>
  /\ outcome.ret = Keys(outcome.prior)

\* C16: every visible named device whose probes answered during a discovery
\* run is in the list that the run returns, whatever happened to the probes
\* of another device.
C16_ProbeFailureIsolated == IsDiscover => ~outcome.lost

\* The call that the last step completed replaced the snapshot.
Installed ==
  /\ IsDiscover
  /\ ~outcome.raised
  /\ outcome.multicast = "found" \/ outcome.ipscan = "found"

\* C17: after a discovery that installs a snapshot, the snapshot holds the
\* visible named devices that this run found and nothing else: a device of
\* the previous snapshot that was not found again is gone.
C17_SnapshotReplacedWhole ==
  Installed
  => /\ Keys(speakers_cache) = outcome.ret
     /\ ~outcome.stale
     /\ ~outcome.lost
     /\ last_discovery = now
     /\ \A i \in DOMAIN speakers_cache :
          is_visible[speakers_cache[i]] /\ player_name[speakers_cache[i]] # ""

\* A run that did not find a device of the previous snapshot installed a
\* snapshot without it.
C17_Witness ==
  /\ Installed
  /\ speakers_cache # <<>>
  /\ \E d \in Range(outcome.prior) : d \notin Range(speakers_cache)

\* C18: a call with force = false never leaves the snapshot with fewer
\* entries than it had before the call.
C18_UnforcedNeverShrinks ==
  (IsDiscover /\ ~outcome.force) => Len(speakers_cache) >= Len(outcome.prior)

(***************************************************************************)
(* Properties of playback control, under SpecControl.                      *)
(***************************************************************************)
IsPlay == outcome.kind = "play"

\* C10: the playback device of a cached device that is a non-coordinator
\* member of a group is the group's coordinator; that of a coordinator, of an
\* ungrouped device and of a device whose group query raises is the device.
C10_CoordinatorResolution ==
  (IsPlay /\ outcome.device # NoDevice)
  => LET device == outcome.device
         zone == outcome.zone
         member == ~zone.raises /\ zone.group /\ zone.coordinator # device
     IN /\ Len(outcome.called) = 1
        /\ member => /\ outcome.called[1] = zone.coordinator
                     /\ outcome.called[1] # device
        /\ ~member => outcome.called[1] = device

\* Lounge is a member of the group that Kitchen coordinates: play goes to Kitchen.
C10_Witness ==
  /\ IsPlay
  /\ outcome.device = "d2"
  /\ outcome.zone.group
  /\ outcome.zone.coordinator = "d1"
  /\ outcome.called = <<"d1">>

(***************************************************************************)
(* Properties of the requests that name a speaker, under SpecOps.          *)
(***************************************************************************)

\* The playback-transport operations: play, play_uri and TransportOps.
IsTransport == outcome.kind \in TransportOps \cup {"play", "play_uri"}

\* C11: a playback-transport operation makes its device call on the handle
\* that coordinator resolution gives for the named device, and never on a
\* device that is a non-coordinator member of a group.
C11_TransportOnResolvedHandle ==
  (IsTransport /\ outcome.device # NoDevice)
  => /\ outcome.called = <<GetPlaybackDevice(outcome.device, outcome.zone)>>
     /\ (~outcome.zone.raises /\ outcome.zone.group
            /\ ~IsCoordinator(outcome.device, outcome.zone))
        => outcome.called[1] # outcome.device

\* The operations that name a speaker and act on a device.
ByName ==
  TransportOps \cup DeviceOps
  \cup {"play", "play_uri", "set_volume", "group_speakers", "ungroup_all",
        "get_favorites"}

\* The request that the last step completed named a speaker that was not in
\* the snapshot.
NamedAbsent ==
  /\ outcome.kind \in ByName
  /\ \/ outcome.device = NoDevice
     \/ outcome.kind = "group_speakers" /\ outcome.with = NoDevice

\* C12: an operation that names a speaker absent from the snapshot fails
\* and makes no device call: no other device takes the place of the named
\* one.
C12_AbsentNeverSubstituted ==
  NamedAbsent => (outcome.called = <<>> /\ ~outcome.ok)

(***************************************************************************)
(* Properties of the group listing, under SpecGroups.                      *)
(***************************************************************************)
IsGroups == outcome.kind = "get_groups"

\* C13: no two entries of the list that get_groups returns have the same
\* coordinator name, whatever zones were reported and however often a
\* coordinator was reported.
C13_NoDuplicateCoordinator ==
  IsGroups
  => \A i, j \in DOMAIN outcome.groups :
       i # j => outcome.groups[i].coordinator # outcome.groups[j].coordinator

\* Kitchen, a coordinator, is reported by two entries and listed once.
C13_Witness ==
  /\ IsGroups
  /\ Len(outcome.zones) >= 2
  /\ outcome.zones[1] = "d1"
  /\ outcome.zones[2] = "d1"
  /\ outcome.coordinator_of["d1"] = "d1"
  /\ Len(outcome.groups) = 1
  /\ outcome.groups[1].coordinator = "Kitchen"

\* C14: the coordinator of every group that get_groups returns is visible,
\* and every name in its member list is that of a visible device other than
\* the coordinator.
C14_OnlyVisibleInGroups ==
  IsGroups
  => \A i \in DOMAIN outcome.groups :
       LET g == outcome.groups[i] IN
         /\ g.coordinator \notin HiddenNames
         /\ \A m \in g.members :
              /\ m \notin HiddenNames
              /\ m # g.coordinator
              /\ \E d \in Devices : player_name[d] = m /\ is_visible[d]

\* Kitchen coordinates a group that holds Lounge and the hidden Sub: the
\* group lists Lounge only.
C14_Witness ==
  /\ IsGroups
  /\ outcome.coordinator_of["d2"] = "d1"
  /\ outcome.coordinator_of["d3"] = "d1"
  /\ \E i \in DOMAIN outcome.groups :
       /\ outcome.groups[i].coordinator = "Kitchen"
       /\ outcome.groups[i].members = {"Lounge"}

(***************************************************************************)
(* Properties of the snapshot under requests, under SpecOps.               *)
(***************************************************************************)

\* C19: the snapshot that a reader finds (_get_speaker, _get_any_coordinator
\* and get_groups read self._speakers_cache) is never half replaced: the
\* mapping changes only in the step that completes a discovery run, from the
\* whole previous mapping to the whole mapping of the devices of that run.
C19_NoHalfReplacedSnapshot ==
  [][speakers_cache' # speakers_cache
       => /\ outcome'.kind = "discover"
          /\ ~outcome'.raised
          /\ outcome'.prior = speakers_cache
          /\ Keys(speakers_cache') = outcome'.ret
          /\ ~outcome'.lost
          /\ ~outcome'.stale]_vars

\* A request that names no speaker of the snapshot is answered from the
\* snapshot while a discovery is running.
C19_Witness ==
  /\ outcome.kind = "get_favorites"
  /\ outcome.device = NoDevice
  /\ outcome.called # <<>>
  /\ pc[1] \in {"multicast", "ipscan"}
  /\ force[1]

\* C20: the step of a control operation leaves the snapshot and its capture
\* time as they were, whether the operation succeeded or not; they change
\* only in a step that completes a discovery.
C20_ControlLeavesSnapshot ==
  [][/\ outcome'.kind \in ByName
        => UNCHANGED <<speakers_cache, last_discovery>>
     /\ (speakers_cache' # speakers_cache \/ last_discovery' # last_discovery)
        => outcome'.kind = "discover"]_vars

\* The call on a device of the snapshot failed, and the snapshot is there.
C20_Witness ==
  /\ outcome.kind \in DeviceOps
  /\ outcome.device # NoDevice
  /\ ~outcome.ok
  /\ outcome.device \in Range(speakers_cache)
  /\ last_discovery # NoTime

\* The control operations: every operation that names a speaker and returns
\* True or False.
ControlOps == ByName \ {"get_favorites"}

C22_EveryCallReturns ==
  \A c \in Callers :
    /\ (pc[c] # "idle") ~> (pc[c] = "idle" /\ discovery_lock # c)
    /\ (pc[c] = "waiting") ~> (discovery_lock = c \/ pc[c] = "idle")

\* A caller that had to wait for the lock has returned through the except
\* branch; the lock is free and nobody waits.
C22_Witness ==
  /\ IsDiscover
  /\ outcome.behind.state # "none"
  /\ outcome.raised
  /\ discovery_lock = Free
  /\ waiters = <<>>
  /\ \A c \in Callers : pc[c] = "idle"

(***************************************************************************)
(* Properties of the router and of the MCP tools, under SpecApi.           *)
(***************************************************************************)

\* C23: the tool set_sleep_timer called for a speaker of the snapshot whose
\* device call does not raise sets a timer of minutes * 60 seconds on the
\* playback device when minutes > 0, and cancels the timer when minutes = 0.
C23_ToolSetsTimerInMinutes ==
  (/\ outcome.kind = "tool_set_sleep_timer"
   /\ GetSpeaker(outcome.name) # NoDevice
   /\ ~outcome.response.raised)
  => /\ outcome.response.called
          = <<GetPlaybackDevice(GetSpeaker(outcome.name), outcome.zone)>>
     /\ outcome.response.seconds
          = IF outcome.minutes = 0 THEN None ELSE outcome.minutes * 60
     /\ outcome.response.ok

\* C24: for a speaker of the snapshot, play_from_queue with track number n
\* of a queue that holds at least n tracks starts the n-th track, and the
\* play-queue endpoint starts the first track.
C24_QueuePositionsFromOne ==
  /\ (/\ outcome.kind = "tool_play_from_queue"
      /\ GetSpeaker(outcome.name) # NoDevice
      /\ outcome.track_number <= outcome.queue_len)
     => outcome.response.started = outcome.track_number
  /\ (outcome.kind = "post_queue_play_all" /\ GetSpeaker(outcome.name) # NoDevice)
     => outcome.response.started = 1

\* C25: a volume written to a device is within 0..100, whether the request
\* came through the router, the tool or straight to the service, and the
\* router answers a volume outside 0..100 with 400 and no device call.
C25_VolumeWithinRange ==
  /\ (outcome.kind = "set_volume" /\ outcome.called # <<>>)
     => outcome.value \in 0..100
  /\ outcome.kind \in {"post_volume", "tool_set_volume"}
     => /\ outcome.response.called # <<>> => outcome.response.value \in 0..100
        /\ outcome.volume \notin 0..100
           => outcome.response.status = 400 /\ outcome.response.called = <<>>

\* The router has refused the volume 101 for a speaker of the snapshot.
C25_Witness ==
  /\ outcome.kind = "post_volume"
  /\ outcome.volume = 101
  /\ GetSpeaker(outcome.name) # NoDevice
  /\ outcome.response.status = 400
  /\ outcome.response.called = <<>>

(***************************************************************************)
(* Properties of the suspended router requests, under SpecRouter.          *)
(***************************************************************************)
IsPlayPause == outcome.kind = "play_pause"

\* C26 as stated: a play/pause request for a speaker that is in the
\* snapshot when the request arrives issues exactly one transport command,
\* pause if the state read was PLAYING and play otherwise; for a speaker
\* that is not, no device is asked or commanded and the result is false.
C26_ExactlyOneCommand ==
  IsPlayPause
  => /\ outcome.command = IF outcome.state = "PLAYING" THEN "pause" ELSE "play"
     /\ outcome.present => Len(outcome.called) = 1
     /\ ~outcome.present
        => outcome.reads = 0 /\ outcome.called = <<>> /\ ~outcome.ok

\* C26, amended: the request issues at most one transport command, pause if
\* the state read was PLAYING and play otherwise.  The command is sent,
\* once and to the playback device, exactly if the speaker is in the
\* snapshot when the command is due; a speaker dropped from the snapshot
\* since the state was read gets no command and the result is false, and
\* for a speaker that was not in the snapshot when the request arrived no
\* device is asked or commanded and the result is false.
C26_OneCommandIfStillPresent ==
  IsPlayPause
  => /\ outcome.command = IF outcome.state = "PLAYING" THEN "pause" ELSE "play"
     /\ Len(outcome.called) <= 1
     /\ outcome.device # NoDevice
        => /\ outcome.called = <<GetPlaybackDevice(outcome.device, outcome.zone)>>
           /\ outcome.ok = ~outcome.raised
     /\ outcome.device = NoDevice => outcome.called = <<>> /\ ~outcome.ok
     /\ ~outcome.present
        => outcome.reads = 0 /\ outcome.device = NoDevice

\* The state read for Kitchen was PLAYING and pause was sent to Lounge, the
\* coordinator of its group.
C26_Witness ==
  /\ IsPlayPause
  /\ outcome.name = "Kitchen"
  /\ outcome.state = "PLAYING"
  /\ outcome.command = "pause"
  /\ outcome.called = <<"d2">>
  /\ outcome.ok

IsInfo == outcome.kind = "get_speaker_info"

\* C27: get_speaker_info for a name that is in the snapshot makes no
\* discover_speakers call; for any other name it makes exactly one, forced,
\* which goes to the network, and looks the name up again: a name that is
\* still not in the snapshot gives is_offline with "Speaker not found" and
\* no device call, any other the device calls on the device found.
C27_OneForcedRediscovery ==
  IsInfo
  => /\ outcome.present_before
        => outcome.discovery = <<>> /\ outcome.called = <<outcome.device>>
     /\ ~outcome.present_before
        => /\ Len(outcome.discovery) = 1
           /\ outcome.discovery[1].force
           /\ outcome.discovery[1].network
     /\ outcome.device = NoDevice
        => /\ outcome.is_offline
           /\ outcome.error_message = "Speaker not found"
           /\ outcome.called = <<>>

\* Attic was looked for, one forced discovery ran and found other speakers
\* only, and the record says that the speaker was not found.
C27_Witness ==
  /\ IsInfo
  /\ outcome.name = "Attic"
  /\ Len(outcome.discovery) = 1
  /\ speakers_cache # <<>>
  /\ outcome.is_offline
  /\ outcome.error_message = "Speaker not found"
  /\ outcome.called = <<>>

(***************************************************************************)
(* Properties of the snapshot and of its capture time, under Spec.         *)
(***************************************************************************)

\* C28: whenever a capture time is set, the snapshot is not empty.
C28_CaptureTimeMeansSnapshot == last_discovery # NoTime => speakers_cache # <<>>

\* C29: a discover_speakers call whose multicast discovery raised made no
\* IP scan, left the snapshot and its capture time as they were, and
\* returned the names of that snapshot, none if there is no snapshot.
C29_MulticastExceptionKeepsSnapshot ==
  (IsDiscover /\ outcome.multicast = "raised")
  => /\ outcome.ipscan = "none"
     /\ outcome.scanned = <<>>
     /\ speakers_cache = outcome.prior
     /\ last_discovery = outcome.prior_last
     /\ outcome.ret = Keys(speakers_cache)

\* Multicast discovery raised while the snapshot held both names, and both
\* were returned.
C29_Witness ==
  /\ IsDiscover
  /\ outcome.multicast = "raised"
  /\ outcome.ipscan = "none"
  /\ Len(speakers_cache) = 2
  /\ outcome.ret = Keys(speakers_cache)
  /\ last_discovery # NoTime

\* The discover_speakers call that the last step completed was served from
\* the cache.
CacheHit == IsDiscover /\ ~outcome.raised /\ outcome.multicast = "none"

\* C30: the capture time changes only in a step that installs a snapshot,
\* and then to the current time, never to an earlier one; a call served
\* from the cache, a total failure and an exception leave it as it was; and
\* a call is served from the cache only while less than 300 seconds have
\* passed since the capture.
C30_CaptureTimeOnlyOnInstall ==
  [][/\ last_discovery' # last_discovery
        => /\ Installed'
           /\ last_discovery' = now
           /\ last_discovery' > last_discovery
           /\ Keys(speakers_cache') = outcome'.ret
     /\ (CacheHit' \/ TotalFailure' \/ (IsDiscover' /\ outcome'.raised))
        => last_discovery' = last_discovery
     /\ CacheHit'
        => /\ last_discovery # NoTime
           /\ now - last_discovery < FreshSeconds]_vars

\* A call 299 seconds after the capture was served from the cache, and the
\* capture time is what it was.
C30_Witness ==
  /\ CacheHit
  /\ last_discovery # NoTime
  /\ now - last_discovery = FreshSeconds - 1
  /\ last_discovery = outcome.prior_last

====
